---- MODULE Spec2Model ----
(***************************************************************************)
(* Model of the session tool: the credential acquisition flow              *)
(* (create_session of session_creator.py and standalone_session_tool.py)   *)
(* and the file-backed session store (SessionManager of session_manager.py *)
(* and StandaloneSessionManager of standalone_session_tool.py).            *)
(*                                                                         *)
(* impl selects which of the two near-duplicate implementations runs:      *)
(*   "modular"    = session_creator.py + session_manager.py                *)
(*   "standalone" = standalone_session_tool.py                             *)
(***************************************************************************)
EXTENDS Integers, Sequences, FiniteSets, TLC

VARIABLES
    impl,       \* which implementation is running
    api_set,    \* self.api_id and self.api_hash are both truthy
    fn,         \* the flow that is running: create_session or test_session
    pc,         \* position inside the running flow
    client,     \* the local `client` is not None (TelegramClient was built)
    state,      \* phase of the acquisition attempt (spec 4.1 state machine)
    calls,      \* remote operations invoked so far, each with its reply
    pending,    \* exception in flight towards the finally block
    retval,     \* value of the `return` statement waiting for the finally block
    outcome,    \* which except clause reported the failure
    result,     \* value create_session returned to its caller
    raised,     \* exception that left create_session
    files,      \* the sessions directory: filename -> document
    now,        \* the wall clock read by datetime.now()
    op,         \* the store operation that ran last, with its result
    prev,       \* the store operation that ran before op
    nops,       \* number of store operations run so far
    shell,      \* which interactive program is running
    pos,        \* position of the shell: the menu or a point inside a handler
    idx,        \* the number the operator picked from the list shown
    typed,      \* what the operator typed at the delete confirmation
    err,        \* exception in flight out of a menu action
    cause       \* what ended the menu loop

flowVars ==
    <<fn, pc, client, state, calls, pending, retval, outcome, result, raised>>
storeVars == <<files, now, op, prev, nops>>
shellVars == <<shell, pos, idx, typed, err, cause>>
vars == <<impl, api_set, flowVars, storeVars, shellVars>>

\* What no step of a flow touches.
flowFrame == <<impl, api_set, storeVars, shellVars>>

NoneVal == "None"

Impls == {"modular", "standalone"}

(***************************************************************************)
(* The remote collaborator.  Every operation either answers or raises; the *)
(* three telethon errors the code names are kept apart, every other        *)
(* Exception is "Exception", and an operator interrupt is the              *)
(* BaseException "KeyboardInterrupt".                                      *)
(***************************************************************************)
Tokens == {"tokA", "tokB"}

Exceptions ==
    {"Exception", "PhoneCodeInvalidError", "ApiIdInvalidError",
     "SessionPasswordNeededError"}

BaseExceptions == {"KeyboardInterrupt"}

Raisable == Exceptions \cup BaseExceptions

Call(name, reply) == [op |-> name, reply |-> reply]

Invoked(name) == {i \in 1..Len(calls) : calls[i].op = name}

Replied(name, reply) == \E i \in Invoked(name) : calls[i].reply = reply

FlowInit ==
    /\ fn = "none"
    /\ pc = "idle"
    /\ client = FALSE
    /\ state = "Disconnected"
    /\ calls = <<>>
    /\ pending = "none"
    /\ retval = "unset"
    /\ outcome = "none"
    /\ result = "unset"
    /\ raised = "none"

\* The except clauses of the running flow: which clause takes exception e.
\* test_session has the single clause `except Exception`.
Handler(e) ==
    CASE e = "PhoneCodeInvalidError" /\ fn = "create_session" -> "InvalidCode"
      [] e = "ApiIdInvalidError" /\ fn = "create_session" -> "InvalidCredentials"
      [] e \in Exceptions -> "TransientOrUnknown"
      [] OTHER -> "none"

\* What the except clauses return: None from create_session, False from
\* test_session.
Failure == IF fn = "test_session" THEN "False" ELSE NoneVal

\* The try statement without its finally clause for what no except clause
\* takes: a BaseException leaves the flow at once.
RaiseLeaves(e) ==
    /\ pc' = IF e \in Exceptions THEN "finally" ELSE "done"
    /\ outcome' = Handler(e)
    /\ retval' = IF e \in Exceptions THEN Failure ELSE "unset"
    /\ pending' = IF e \in Exceptions THEN "none" ELSE e

\* The except clause for a rejected code asking for the code again.
RaiseRetriesCode(e) ==
    /\ pc' = IF e = "PhoneCodeInvalidError" THEN "input_code" ELSE "finally"
    /\ outcome' = Handler(e)
    /\ retval' = IF e \in Exceptions THEN Failure ELSE "unset"
    /\ pending' = IF e \in Exceptions THEN "none" ELSE e

\* An exception leaves the try body at the current statement: a matching
\* except clause prints and returns None, a BaseException stays in flight;
\* either way control goes to the finally block.
Raise(e) ==
    /\ pc' = "finally"
    /\ outcome' = Handler(e)
    /\ retval' = IF e \in Exceptions THEN Failure ELSE "unset"
    /\ pending' = IF e \in Exceptions THEN "none" ELSE e

\* One remote call inside the try body: it answers and the flow moves on,
\* or it raises.
Remote(at, name, next, phase) ==
    /\ pc = at
    /\ \E reply \in {"ok"} \cup Raisable :
        /\ calls' = Append(calls, Call(name, reply))
        /\ IF reply = "ok"
           THEN /\ pc' = next
                /\ state' = phase
                /\ UNCHANGED <<pending, retval, outcome>>
           ELSE /\ Raise(reply)
                /\ UNCHANGED state
    /\ UNCHANGED <<client, result, raised, fn, flowFrame>>

\* create_session is entered; the standalone tool first checks its API fields.
CreateSession ==
    /\ pc = "idle"
    /\ IF impl = "standalone" /\ ~api_set
       THEN /\ pc' = "done"
            /\ result' = NoneVal
       ELSE /\ pc' = "new_client"
            /\ UNCHANGED result
    /\ fn' = "create_session"
    /\ UNCHANGED <<client, state, calls, pending, retval, outcome, raised, flowFrame>>

\* client = TelegramClient(StringSession(), api_id, api_hash)
NewClient ==
    /\ pc = "new_client"
    /\ \/ /\ client' = TRUE
          /\ pc' = "connect"
          /\ UNCHANGED <<pending, retval, outcome>>
       \/ /\ Raise("Exception")
          /\ UNCHANGED client
    /\ UNCHANGED <<state, calls, result, raised, fn, flowFrame>>

\* connect followed at once by the code prompt.
ConnectSkipsCodeRequest == Remote("connect", "connect", "input_code", "Connected")

Connect == Remote("connect", "connect", "send_code_request", "Connected")

SendCodeRequest ==
    Remote("send_code_request", "send_code_request", "input_code", "CodeRequested")

\* input(): the operator types something, closes the input (EOFError) or
\* interrupts.
Input(at, next) ==
    /\ pc = at
    /\ \/ /\ pc' = next
          /\ UNCHANGED <<pending, retval, outcome>>
       \/ Raise("Exception")
       \/ Raise("KeyboardInterrupt")
    /\ UNCHANGED <<client, state, calls, result, raised, fn, flowFrame>>

InputCode == Input("input_code", "sign_in")

\* sign_in with an inner clause `except Exception` asking for the password.
SignInAsksPassword ==
    /\ pc = "sign_in"
    /\ \E reply \in {"ok"} \cup Raisable :
        /\ calls' = Append(calls, Call("sign_in", reply))
        /\ CASE reply = "ok" ->
                  /\ pc' = "get_me"
                  /\ state' = "Authenticated"
                  /\ UNCHANGED <<pending, retval, outcome>>
             [] reply \in Exceptions ->
                  /\ pc' = "input_password"
                  /\ state' = "PasswordRequired"
                  /\ UNCHANGED <<pending, retval, outcome>>
             [] OTHER ->
                  /\ Raise(reply)
                  /\ UNCHANGED state
    /\ UNCHANGED <<client, result, raised, fn, flowFrame>>

\* await client.sign_in(phone, code), with the inner except clause for
\* SessionPasswordNeededError.
SignIn ==
    /\ pc = "sign_in"
    /\ \E reply \in {"ok"} \cup Raisable :
        /\ calls' = Append(calls, Call("sign_in", reply))
        /\ CASE reply = "ok" ->
                  /\ pc' = "get_me"
                  /\ state' = "Authenticated"
                  /\ UNCHANGED <<pending, retval, outcome>>
             [] reply = "SessionPasswordNeededError" ->
                  /\ pc' = "input_password"
                  /\ state' = "PasswordRequired"
                  /\ UNCHANGED <<pending, retval, outcome>>
             [] OTHER ->
                  /\ Raise(reply)
                  /\ UNCHANGED state
    /\ UNCHANGED <<client, result, raised, fn, flowFrame>>

InputPassword == Input("input_password", "sign_in_password")

SignInPassword ==
    Remote("sign_in_password", "sign_in_password", "get_me", "Authenticated")

GetMe == Remote("get_me", "get_me", "session_save", state)

\* session_string = client.session.save(); return session_string
SessionSave ==
    /\ pc = "session_save"
    /\ \/ \E t \in Tokens :
            /\ calls' = Append(calls, Call("session_save", "ok"))
            /\ state' = "TokenExported"
            /\ retval' = t
            /\ pc' = "finally"
            /\ UNCHANGED <<pending, outcome>>
       \/ /\ calls' = Append(calls, Call("session_save", "Exception"))
          /\ Raise("Exception")
          /\ UNCHANGED state
    /\ UNCHANGED <<client, result, raised, fn, flowFrame>>

(***************************************************************************)
(* test_session (session_creator.py, standalone_session_tool.py) and       *)
(* test_session_connection (session_manager.py): one shape, three copies.  *)
(***************************************************************************)

\* test_session is entered; the standalone tool first checks its API fields.
TestSession ==
    /\ pc = "idle"
    /\ IF impl = "standalone" /\ ~api_set
       THEN /\ pc' = "done"
            /\ result' = "False"
       ELSE /\ pc' = "test_new_client"
            /\ UNCHANGED result
    /\ fn' = "test_session"
    /\ UNCHANGED <<client, state, calls, pending, retval, outcome, raised, flowFrame>>

\* client = TelegramClient(StringSession(session_string), api_id, api_hash)
TestNewClient ==
    /\ pc = "test_new_client"
    /\ \/ /\ client' = TRUE
          /\ pc' = "test_connect"
          /\ UNCHANGED <<pending, retval, outcome>>
       \/ /\ Raise("Exception")
          /\ UNCHANGED client
    /\ UNCHANGED <<state, calls, result, raised, fn, flowFrame>>

\* The connection followed by a request for a login code.
TestConnectRequestsCode ==
    Remote("test_connect", "connect", "send_code_request", "Connected")

\* await client.connect()
TestConnect == Remote("test_connect", "connect", "is_user_authorized", "Connected")

\* if await client.is_user_authorized(): ... else: return False
IsUserAuthorized ==
    /\ pc = "is_user_authorized"
    /\ \E reply \in {"True", "False"} \cup Raisable :
        /\ calls' = Append(calls, Call("is_user_authorized", reply))
        /\ CASE reply = "True" ->
                  /\ pc' = "test_get_me"
                  /\ UNCHANGED <<pending, retval, outcome>>
             [] reply = "False" ->
                  /\ pc' = "finally"
                  /\ retval' = "False"
                  /\ UNCHANGED <<pending, outcome>>
             [] OTHER ->
                  Raise(reply)
    /\ UNCHANGED <<client, state, result, raised, fn, flowFrame>>

\* me = await client.get_me(); return True
TestGetMe ==
    /\ pc = "test_get_me"
    /\ \E reply \in {"ok"} \cup Raisable :
        /\ calls' = Append(calls, Call("get_me", reply))
        /\ IF reply = "ok"
           THEN /\ pc' = "finally"
                /\ retval' = "True"
                /\ UNCHANGED <<pending, outcome>>
           ELSE Raise(reply)
    /\ UNCHANGED <<client, state, result, raised, fn, flowFrame>>

\* The finally block with the release skipped unless a token is returned.
FinallyNoDisconnectOnError ==
    /\ pc = "finally"
    /\ pc' = "done"
    /\ IF client /\ retval \in Tokens
       THEN \E reply \in {"ok"} \cup Raisable :
               /\ calls' = Append(calls, Call("disconnect", reply))
               /\ state' = "Disconnected"
               /\ IF reply = "ok"
                  THEN /\ raised' = pending
                       /\ result' = IF pending = "none" THEN retval ELSE result
                  ELSE /\ raised' = reply
                       /\ UNCHANGED result
       ELSE /\ raised' = pending
            /\ result' = IF pending = "none" THEN retval ELSE result
            /\ UNCHANGED <<calls, state>>
    /\ UNCHANGED <<client, pending, retval, outcome, fn, flowFrame>>

\* finally: if client: await client.disconnect().  A disconnect that raises
\* replaces the pending return value or exception.  The phase is Disconnected
\* once the release step has been invoked; what a raising disconnect leaves
\* of the connection is the library's business, not the flow's.
Finally ==
    /\ pc = "finally"
    /\ pc' = "done"
    /\ IF client
       THEN \E reply \in {"ok"} \cup Raisable :
               /\ calls' = Append(calls, Call("disconnect", reply))
               /\ state' = "Disconnected"
               /\ IF reply = "ok"
                  THEN /\ raised' = pending
                       /\ result' = IF pending = "none" THEN retval ELSE result
                  ELSE /\ raised' = reply
                       /\ UNCHANGED result
       ELSE /\ raised' = pending
            /\ result' = IF pending = "none" THEN retval ELSE result
            /\ UNCHANGED <<calls, state>>
    /\ UNCHANGED <<client, pending, retval, outcome, fn, flowFrame>>

FlowNext ==
    \/ CreateSession
    \/ NewClient
    \/ Connect
    \/ SendCodeRequest
    \/ InputCode
    \/ SignIn
    \/ InputPassword
    \/ SignInPassword
    \/ GetMe
    \/ SessionSave
    \/ TestSession
    \/ TestNewClient
    \/ TestConnect
    \/ IsUserAuthorized
    \/ TestGetMe
    \/ Finally

(***************************************************************************)
(* Strings.  A name or filename is a sequence of one-character strings, so *)
(* that the filename clean-up and the suffix test work on characters.      *)
(***************************************************************************)
Alnum == {"a", "b", "e", "i", "j", "n", "o", "s", "0", "1", "2", "3", "4",
          "5", "6", "7", "8", "9"}

\* c.isalnum() or c in (' ', '-', '_')
Keep(c) == c \in Alnum \/ c \in {" ", "-", "_"}

RECURSIVE LStrip(_)
LStrip(s) == IF s # <<>> /\ Head(s) = " " THEN LStrip(Tail(s)) ELSE s

RECURSIVE RStrip(_)
RStrip(s) ==
    IF s # <<>> /\ s[Len(s)] = " " THEN RStrip(SubSeq(s, 1, Len(s) - 1)) ELSE s

\* str.strip()
Strip(s) == RStrip(LStrip(s))

\* "".join(c for c in name if c.isalnum() or c in (' ', '-', '_')).strip()
SafeName(name) == Strip(SelectSeq(name, Keep))

Suffix == <<".", "j", "s", "o", "n">>

\* str.endswith
EndsWith(s, t) ==
    /\ Len(s) >= Len(t)
    /\ SubSeq(s, Len(s) - Len(t) + 1, Len(s)) = t

\* last_used / created_at of a document that holds none (None, or no key).
Never == 0

\* The clock stops at MaxTime; one second of the clock has TicksPerSecond ticks.
MaxTime == 3
TicksPerSecond == 2

\* At most MaxOps store operations are run.
MaxOps == 4

\* strftime('%Y%m%d_%H%M%S') keeps whole seconds; isoformat() keeps the ticks.
Second(t) == t \div TicksPerSecond

Digits == <<"0", "1", "2", "3", "4", "5", "6", "7", "8", "9">>

Stamp(t) == <<Digits[(Second(t) % 10) + 1]>>

\* f"session_{datetime.now().strftime('%Y%m%d_%H%M%S')}"
FallbackName(t) == <<"s", "e", "s", "s", "i", "o", "n", "_">> \o Stamp(t)

\* safe_name, after the empty check
BaseNameEmptyAllowed(name, t) == SafeName(name)

BaseName(name, t) ==
    IF SafeName(name) = <<>> THEN FallbackName(t) ELSE SafeName(name)

\* filename = f"session_{timestamp}.json", whatever the name
FileNameStamped(name, t) == FallbackName(t) \o Suffix

\* filename = f"{safe_name}.json"
FileName(name, t) == BaseName(name, t) \o Suffix

(***************************************************************************)
(* Documents of the sessions directory.                                    *)
(*   record  : an object as save_session writes it                         *)
(*   partial : a JSON object without name, session_string, created_at      *)
(*   nondict : valid JSON that is not an object (a list, a string, null)   *)
(*   corrupt : text json.load rejects (ValueError)                         *)
(***************************************************************************)
Record(name, session_string, phone, notes, created_at, last_used) ==
    [kind |-> "record", name |-> name, session_string |-> session_string,
     phone |-> phone, notes |-> notes, created_at |-> created_at,
     last_used |-> last_used]

Foreign(kind) ==
    [kind |-> kind, name |-> <<>>, session_string |-> "", phone |-> NoneVal,
     notes |-> NoneVal, created_at |-> Never, last_used |-> Never]

Exists(f) == f \in DOMAIN files

\* open(filepath, 'x'): an existing file is left as it is
WriteIfAbsent(f, doc) ==
    IF f \in DOMAIN files THEN files
    ELSE [g \in DOMAIN files \cup {f} |-> IF g = f THEN doc ELSE files[g]]

\* The directory emptied and the one file written anew.
WriteAlone(f, doc) == [g \in {f} |-> doc]

\* with open(filepath, 'w', encoding='utf-8') as f: json.dump(doc, f, ...)
Write(f, doc) == [g \in DOMAIN files \cup {f} |-> IF g = f THEN doc ELSE files[g]]

\* Every file whose document carries the name of the one resolved is removed.
UnlinkNamed(f) ==
    [g \in {h \in DOMAIN files : files[h].name # files[f].name} |-> files[g]]

\* filepath.unlink()
Unlink(f) == [g \in DOMAIN files \ {f} |-> files[g]]

\* The orders in which sessions_dir.glob("*.json") may yield the files.
RECURSIVE Orders(_)
Orders(S) ==
    IF S = {} THEN {<<>>}
    ELSE UNION {{<<f>> \o rest : rest \in Orders(S \ {f})} : f \in S}

GlobOrders == Orders(DOMAIN files)

Found(f) == [tag |-> "file", file |-> f, exc |-> "none"]
NotFound == [tag |-> "none", file |-> <<>>, exc |-> "none"]
Raised(e) == [tag |-> "raise", file |-> <<>>, exc |-> e]

\* The exceptions the scan loop of _find_session_file swallows.
ScanCatches(e) ==
    IF impl = "modular" THEN TRUE ELSE e \in {"OSError", "ValueError"}

\* What reading one document raises inside the scan loop, "none" if nothing.
ScanError(doc) ==
    CASE doc.kind = "corrupt" -> "ValueError"
      [] doc.kind = "nondict" -> "AttributeError"
      [] OTHER -> "none"

\* for filepath in glob: ... if session_data.get("name") == name: return
RECURSIVE Scan(_, _, _)
Scan(order, i, name) ==
    IF i > Len(order) THEN NotFound
    ELSE LET doc == files[order[i]]
             e == ScanError(doc)
         IN  IF e # "none"
             THEN IF ScanCatches(e) THEN Scan(order, i + 1, name) ELSE Raised(e)
             ELSE IF doc.kind = "record" /\ doc.name = name
                  THEN Found(order[i])
                  ELSE Scan(order, i + 1, name)

\* _find_session_file with the name scan placed before the two filename tests
FindSessionFileScanFirst(name, order) ==
    LET r == Scan(order, 1, name)
    IN  IF r.tag = "file" THEN r
        ELSE IF EndsWith(name, Suffix) /\ Exists(name) THEN Found(name)
        ELSE IF Exists(name \o Suffix) THEN Found(name \o Suffix)
        ELSE r

\* _find_session_file(name), the directory being listed in `order`
FindSessionFile(name, order) ==
    IF EndsWith(name, Suffix) /\ Exists(name) THEN Found(name)
    ELSE IF Exists(name \o Suffix) THEN Found(name \o Suffix)
    ELSE Scan(order, 1, name)

(***************************************************************************)
(* The store operations.  Each leaves its arguments and result in op.      *)
(***************************************************************************)
Done(kind, name, token, file, ret, exc, before, listing) ==
    [kind |-> kind, name |-> name, token |-> token, file |-> file, ret |-> ret,
     exc |-> exc, before |-> before, listing |-> listing]

NoOp == Done("none", <<>>, "", <<>>, NoneVal, "none", Never, <<>>)

\* What is kept of an operation once the next one has run.
Earlier(o) == [kind |-> o.kind, name |-> o.name, token |-> o.token,
               file |-> o.file, ret |-> o.ret]

\* The names and identifiers the operations are tried with.
NameA == <<"a">>
NameABang == <<"a", "!">>
NameBang == <<"!", " ">>
NameAJson == <<"a", ".", "j", "s", "o", "n">>

SaveInputs ==
    { <<"tokA", NameA, NoneVal, NoneVal>>,
      <<"tokB", NameABang, "+821012345678", "memo">>,
      <<"tokB", NameAJson, NoneVal, NoneVal>>,
      <<"tokA", NameBang, "+821012345678", NoneVal>> }

Identifiers == {i[2] : i \in SaveInputs} \cup DOMAIN files

\* save_session(session_string, name, phone, notes)
SaveSession(session_string, name, phone, notes) ==
    LET filename == FileName(name, now)
    IN  /\ files' = Write(filename,
                          Record(name, session_string, phone, notes, now, Never))
        /\ op' = Done("save", name, session_string, filename, "True", "none",
                      Never, <<>>)
        /\ prev' = Earlier(op)
        /\ nops' = nops + 1
        /\ UNCHANGED <<now, impl, api_set, flowVars>>

\* session_data["last_used"] = datetime.now().isoformat() with every field
\* of the document rewritten.
StampedAll(doc, t) == [doc EXCEPT !.created_at = t, !.last_used = t]

\* The stamp written together with a note that the record was loaded.
StampedWithNote(doc, t) == [doc EXCEPT !.last_used = t, !.notes = "loaded"]

\* session_data["last_used"] = datetime.now().isoformat()
Stamped(doc, t) == [doc EXCEPT !.last_used = t]

\* The exceptions the except clause of load_session takes.
LoadCatches(e) ==
    IF impl = "modular" THEN TRUE ELSE e \in {"OSError", "ValueError", "KeyError"}

\* load_session(name), the directory being listed in `order`
LoadSession(name, order) ==
    LET r == FindSessionFile(name, order)
        doc == files[r.file]
        failed(e, f, before) ==
            op' = Done("load", name, "", f, NoneVal,
                       IF LoadCatches(e) THEN "none" ELSE e, before, <<>>)
    IN  /\ CASE r.tag = "raise" ->
                  /\ failed(r.exc, <<>>, Never)
                  /\ UNCHANGED files
             [] r.tag = "none" ->
                  /\ op' = Done("load", name, "", <<>>, NoneVal, "none", Never, <<>>)
                  /\ UNCHANGED files
             [] r.tag = "file" /\ doc.kind = "corrupt" ->
                  /\ failed("ValueError", r.file, Never)
                  /\ UNCHANGED files
             [] r.tag = "file" /\ doc.kind = "nondict" ->
                  /\ failed("TypeError", r.file, Never)
                  /\ UNCHANGED files
             [] r.tag = "file" /\ doc.kind = "partial" ->
                  /\ files' = Write(r.file, Stamped(doc, now))
                  /\ failed("KeyError", r.file, doc.last_used)
             [] r.tag = "file" /\ doc.kind = "record" ->
                  /\ files' = Write(r.file, Stamped(doc, now))
                  /\ op' = Done("load", name, "", r.file, doc.session_string,
                                "none", doc.last_used, <<>>)
        /\ prev' = Earlier(op)
        /\ nops' = nops + 1
        /\ UNCHANGED <<now, impl, api_set, flowVars>>

\* The exceptions the except clause of delete_session takes.
DeleteCatches(e) == IF impl = "modular" THEN TRUE ELSE e \in {"OSError"}

\* delete_session(name), the directory being listed in `order`
DeleteSession(name, order) ==
    LET r == FindSessionFile(name, order)
    IN  /\ CASE r.tag = "raise" ->
                  /\ op' = Done("delete", name, "", <<>>, "False",
                                IF DeleteCatches(r.exc) THEN "none" ELSE r.exc,
                                Never, <<>>)
                  /\ UNCHANGED files
             [] r.tag = "none" ->
                  /\ op' = Done("delete", name, "", <<>>, "False", "none",
                                Never, <<>>)
                  /\ UNCHANGED files
             [] r.tag = "file" ->
                  /\ files' = Unlink(r.file)
                  /\ op' = Done("delete", name, "", r.file, "True", "none",
                                Never, <<>>)
        /\ prev' = Earlier(op)
        /\ nops' = nops + 1
        /\ UNCHANGED <<now, impl, api_set, flowVars>>

\* The exceptions the inner except clause of list_sessions takes (the file
\* is skipped); any other exception ends the loop in the outer except clause.
ListSkips(e) ==
    IF impl = "modular" THEN TRUE ELSE e \in {"OSError", "ValueError"}

\* What reading one document raises inside the loop of list_sessions.
ListError(doc) ==
    CASE doc.kind = "corrupt" -> "ValueError"
      [] doc.kind = "nondict" -> "TypeError"
      [] OTHER -> "none"

\* filepath.stat().st_size: the size of a file is a function of the document
\* it holds, measured here by the length of the stored name.
FileSize(doc) == Len(doc.name) + 1

\* session_data["filename"] = filepath.name
\* session_data["file_size"] = filepath.stat().st_size
Entry(f, doc) == [filename |-> f, file_size |-> FileSize(doc), doc |-> doc]

\* for filepath in glob: ... sessions.append(session_data)
RECURSIVE Collect(_, _, _)
Collect(order, i, sessions) ==
    IF i > Len(order) THEN sessions
    ELSE LET doc == files[order[i]]
             e == ListError(doc)
         IN  IF e = "none"
             THEN Collect(order, i + 1, Append(sessions, Entry(order[i], doc)))
             ELSE IF ListSkips(e) THEN Collect(order, i + 1, sessions)
             ELSE sessions

\* x.get("created_at", "")
SortKey(entry) == entry.doc.created_at

\* One step of the stable sort without reverse=True: x goes behind the
\* entries whose key is not larger.
RECURSIVE InsertAscending(_, _)
InsertAscending(x, sorted) ==
    IF sorted = <<>> THEN <<x>>
    ELSE IF SortKey(Head(sorted)) <= SortKey(x)
         THEN <<Head(sorted)>> \o InsertAscending(x, Tail(sorted))
         ELSE <<x>> \o sorted

\* One step of the stable sort with reverse=True: x goes behind the entries
\* whose key is not smaller.
RECURSIVE Insert(_, _)
Insert(x, sorted) ==
    IF sorted = <<>> THEN <<x>>
    ELSE IF SortKey(Head(sorted)) >= SortKey(x)
         THEN <<Head(sorted)>> \o Insert(x, Tail(sorted))
         ELSE <<x>> \o sorted

\* sessions.sort(key=lambda x: x.get("created_at", ""), reverse=True)
RECURSIVE Sort(_, _, _)
Sort(sessions, i, sorted) ==
    IF i > Len(sessions) THEN sorted
    ELSE Sort(sessions, i + 1, Insert(sessions[i], sorted))

\* list_sessions() stamping last_used of every file it lists.
ListSessionsStamping(order) ==
    LET listing == Sort(Collect(order, 1, <<>>), 1, <<>>)
        listed == {listing[i].filename : i \in 1..Len(listing)}
    IN  /\ op' = Done("list", <<>>, "", <<>>, NoneVal, "none", Never, listing)
        /\ files' = [f \in DOMAIN files |->
                        IF f \in listed THEN Stamped(files[f], now) ELSE files[f]]
        /\ prev' = Earlier(op)
        /\ nops' = nops + 1
        /\ UNCHANGED <<now, impl, api_set, flowVars>>

\* list_sessions(), the directory being listed in `order`
ListSessions(order) ==
    /\ op' = Done("list", <<>>, "", <<>>, NoneVal, "none", Never,
                  Sort(Collect(order, 1, <<>>), 1, <<>>))
    /\ prev' = Earlier(op)
    /\ nops' = nops + 1
    /\ UNCHANGED <<files, now, impl, api_set, flowVars>>

\* The clock moves on between two operations.
Tick ==
    /\ now < MaxTime
    /\ now' = now + 1
    /\ UNCHANGED <<files, op, prev, nops, impl, api_set, flowVars, shellVars>>

\* The glob is started only when both filename tests of _find_session_file
\* fail; until then the order of the directory plays no part.
ScanOrders(name) ==
    IF (EndsWith(name, Suffix) /\ Exists(name)) \/ Exists(name \o Suffix)
    THEN {<<>>}
    ELSE GlobOrders

Save ==
    /\ nops < MaxOps
    /\ UNCHANGED shellVars
    /\ \E i \in SaveInputs : SaveSession(i[1], i[2], i[3], i[4])

Load ==
    /\ nops < MaxOps
    /\ UNCHANGED shellVars
    /\ \E name \in Identifiers : \E order \in ScanOrders(name) :
          LoadSession(name, order)

Delete ==
    /\ nops < MaxOps
    /\ UNCHANGED shellVars
    /\ \E name \in Identifiers : \E order \in ScanOrders(name) :
          DeleteSession(name, order)

List ==
    /\ nops < MaxOps
    /\ UNCHANGED shellVars
    /\ \E order \in GlobOrders : ListSessions(order)

StoreNext ==
    \/ Save
    \/ Load
    \/ Delete
    \/ List
    \/ Tick

StoreInit ==
    /\ files = <<>>
    /\ now = 1
    /\ op = NoOp
    /\ prev = Earlier(NoOp)
    /\ nops = 0

\* No interactive program is running: the operations are called directly.
NoShell ==
    /\ shell = "none"
    /\ pos = "off"
    /\ idx = 0
    /\ typed = ""
    /\ err = "none"
    /\ cause = "none"

Init ==
    /\ impl \in Impls
    /\ api_set \in BOOLEAN
    /\ FlowInit
    /\ StoreInit
    /\ NoShell

\* The acquisition flow alone.
SpecFlow == Init /\ [][FlowNext]_vars

\* The store alone, from an empty sessions directory.
StoreStart ==
    /\ Init
    /\ api_set

SpecStore == StoreStart /\ [][StoreNext]_vars

\* datetime.now() reads the wall clock of the machine as local time, which
\* is set back at the end of daylight saving time or by an adjustment.
ClockBack ==
    /\ now > 1
    /\ now' = now - 1
    /\ UNCHANGED <<files, op, prev, nops, impl, api_set, flowVars, shellVars>>

ClockNext ==
    \/ StoreNext
    \/ ClockBack

\* The store operations under a wall clock that may also be set back.
SpecClock == StoreStart /\ [][ClockNext]_vars

(***************************************************************************)
(* Name resolution as a function of the directory: the directory is drawn  *)
(* from DirChoices (files the operator may also have copied or renamed by  *)
(* hand), and Resolve applies _find_session_file to it.                    *)
(***************************************************************************)
FileA == NameA \o Suffix
FileAJson == NameAJson \o Suffix
FileX == <<"x">> \o Suffix

DocChoices ==
    { Record(NameA, "tokA", NoneVal, NoneVal, 1, Never),
      Record(NameAJson, "tokB", NoneVal, NoneVal, 1, Never),
      Foreign("corrupt"),
      Foreign("nondict"),
      Foreign("partial") }

DirChoices ==
    UNION { [D -> DocChoices] : D \in SUBSET {FileA, FileAJson, FileX} }

ResolveIdentifiers == {NameA, NameAJson, <<"x">>, <<"b">>, FileAJson}

Resolve ==
    /\ \E name \in ResolveIdentifiers : \E order \in GlobOrders :
          LET r == FindSessionFile(name, order)
          IN  op' = Done("find", name, "", r.file, r.tag, r.exc, Never, order)
    /\ UNCHANGED <<files, now, prev, nops, impl, api_set, flowVars, shellVars>>

FindInit ==
    /\ impl \in Impls
    /\ api_set = TRUE
    /\ FlowInit
    /\ files \in DirChoices
    /\ now = 1
    /\ op = NoOp
    /\ prev = Earlier(NoOp)
    /\ nops = 0
    /\ NoShell

SpecFind == FindInit /\ [][Resolve]_vars

(***************************************************************************)
(* The store operations on a directory drawn from DirChoices.              *)
(***************************************************************************)
MaxDirOps == 1

DirList ==
    /\ nops < MaxDirOps
    /\ List

DirLoad ==
    /\ nops < MaxDirOps
    /\ Load

DirDelete ==
    /\ nops < MaxDirOps
    /\ Delete

DirNext ==
    \/ DirList
    \/ DirLoad
    \/ DirDelete

SpecDir == FindInit /\ [][DirNext]_vars

(***************************************************************************)
(* The interactive programs: SimpleTelegramSessionApp.run of main.py,      *)
(* StandaloneSessionManager.run of standalone_session_tool.py and main of  *)
(* session_manager.py.  One menu loop, a handler per menu entry; a handler *)
(* is a sequence of steps, one per prompt and one per operation it calls.  *)
(***************************************************************************)
Shells == {"main", "standalone", "manager"}

\* main.py drives session_creator.py and session_manager.py.
ImplOf(sh) == IF sh = "standalone" THEN "standalone" ELSE "modular"

MaxShellOps == 2

\* What input() raises instead of returning a line.
Interrupts == {"KeyboardInterrupt", "EOFError"}

\* `except Exception` takes e.
IsException(e) == e \notin {"KeyboardInterrupt", "SystemExit"}

Choices == {"1", "2", "3", "4", "5", "6", "x"}

\* The if/elif chain on `choice`.
Chosen(sh, c) ==
    IF sh = "manager"
    THEN CASE c = "1" -> "view"
           [] c = "2" -> "load"
           [] c = "3" -> "delete"
           [] c = "4" -> "exit"
           [] OTHER -> "invalid"
    ELSE CASE c = "1" -> "setup"
           [] c = "2" -> "create"
           [] c = "3" -> "view"
           [] c = "4" -> "load"
           [] c = "5" -> "delete"
           [] c = "6" -> "exit"
           [] OTHER -> "invalid"

\* An exception leaves the handler at the current statement.
Throw(e) ==
    /\ pos' = "raised"
    /\ err' = e

\* choice = input(...).strip(), before the try statement, and the dispatch
\* on it; create checks the API fields first.
ShellChoose ==
    /\ pos = "menu"
    /\ \/ \E e \in Interrupts :
             /\ pos' = "exited"
             /\ cause' = e
       \/ \E c \in Choices :
             LET h == Chosen(shell, c)
             IN  /\ pos' = CASE h = "exit" -> "exited"
                             [] h = "invalid" -> "menu"
                             [] h = "create" /\ ~api_set -> "menu"
                             [] h = "create" -> "create_phone"
                             [] OTHER -> h
                 /\ cause' = IF h = "exit" THEN "choice" ELSE cause
    /\ UNCHANGED <<shell, idx, typed, err, impl, api_set, flowVars, storeVars>>

\* setup_api_credentials: get_api_credentials returns a pair, or calls
\* exit(0) on an interrupt (and, in the standalone tool, on end of input).
ShellSetup ==
    /\ pos = "setup"
    /\ \/ /\ api_set' = TRUE
          /\ pos' = "return"
          /\ UNCHANGED err
       \/ /\ Throw("SystemExit")
          /\ UNCHANGED api_set
       \/ /\ Throw(IF shell = "standalone" THEN "SystemExit" ELSE "EOFError")
          /\ UNCHANGED api_set
    /\ UNCHANGED <<shell, idx, typed, cause, impl, flowVars, storeVars>>

\* One prompt of a handler: the operator answers, or input() raises.
Prompt(from, next) ==
    /\ pos = from
    /\ \/ /\ pos' = next
          /\ UNCHANGED err
       \/ \E e \in Interrupts : Throw(e)
    /\ UNCHANGED <<shell, idx, typed, cause, impl, api_set, flowVars, storeVars>>

\* phone = get_phone_number()
ShellGetPhone == Prompt("create_phone", "create_flow")

\* session_string = await creator.create_session(phone)
ShellCreateFlow ==
    /\ pos = "create_flow"
    /\ \/ CreateSession
       \/ NewClient
       \/ Connect
       \/ SendCodeRequest
       \/ InputCode
       \/ SignIn
       \/ InputPassword
       \/ SignInPassword
       \/ GetMe
       \/ SessionSave
       \/ Finally

\* The flow is left and its frame is gone; the caller has what it returned
\* or the exception.
FlowOver ==
    /\ fn' = "none"
    /\ pc' = "idle"
    /\ client' = FALSE
    /\ state' = "Disconnected"
    /\ calls' = <<>>
    /\ pending' = "none"
    /\ retval' = "unset"
    /\ outcome' = "none"
    /\ raised' = "none"
    /\ UNCHANGED result

\* create_session is left and the save question follows whatever it returned.
ShellCreateReturnedAsksAlways ==
    /\ pos = "create_flow"
    /\ pc = "done"
    /\ IF raised # "none" THEN Throw(raised)
       ELSE /\ pos' = "create_save"
            /\ UNCHANGED err
    /\ FlowOver
    /\ UNCHANGED <<shell, idx, typed, cause, impl, api_set, storeVars>>

\* create_session is left: by an exception, with a token, or with None.
ShellCreateReturned ==
    /\ pos = "create_flow"
    /\ pc = "done"
    /\ IF raised # "none" THEN Throw(raised)
       ELSE /\ pos' = IF result \in Tokens THEN "create_save" ELSE "return"
            /\ UNCHANGED err
    /\ FlowOver
    /\ UNCHANGED <<shell, idx, typed, cause, impl, api_set, storeVars>>

ShellPhone == "+821012345678"

\* f"Session_{phone.replace('+', '')}"
DefaultName ==
    <<"S", "e", "s", "s", "i", "o", "n", "_",
      "8", "2", "1", "0", "1", "2", "3", "4", "5", "6", "7", "8">>

\* name = input(...).strip(); if not name: name = f"Session_..."
TypedName(line) == IF Strip(line) = <<>> THEN DefaultName ELSE Strip(line)

\* notes = input(...).strip(); if not notes: notes = None
TypedNotes(line) == IF line = "" THEN NoneVal ELSE line

\* The save question, the name and notes prompts and save_session.
ShellAskSave ==
    /\ pos = "create_save"
    /\ \/ /\ pos' = "return"
          /\ UNCHANGED <<err, storeVars, impl, api_set, flowVars>>
       \/ \E e \in Interrupts :
             /\ Throw(e)
             /\ UNCHANGED <<storeVars, impl, api_set, flowVars>>
       \/ /\ nops < MaxShellOps
          /\ \E line \in {NameA, <<" ">>} : \E notes \in {"", "memo"} :
                SaveSession(result, TypedName(line), ShellPhone, TypedNotes(notes))
          /\ pos' = "return"
          /\ UNCHANGED err
    /\ UNCHANGED <<shell, idx, typed, cause>>

\* view_saved_sessions: print_sessions_list()
ShellView ==
    /\ pos = "view"
    /\ nops < MaxShellOps
    /\ \E order \in GlobOrders : ListSessions(order)
    /\ pos' = "return"
    /\ UNCHANGED <<shell, idx, typed, err, cause>>

\* sessions = list_sessions(); nothing to show, or the numbered list is
\* printed with session['name'], which raises KeyError for a document
\* without a name.
ShellList(from, next) ==
    /\ pos = from
    /\ nops < MaxShellOps
    /\ \E order \in GlobOrders : ListSessions(order)
    /\ LET sessions == op'.listing
       IN  IF sessions = <<>>
           THEN /\ pos' = "return"
                /\ UNCHANGED err
           ELSE IF \E i \in 1..Len(sessions) : sessions[i].doc.kind = "partial"
           THEN Throw("KeyError")
           ELSE /\ pos' = next
                /\ UNCHANGED err
    /\ UNCHANGED <<shell, idx, typed, cause>>

\* idx = int(input(...)) - 1: a number of the list, a number outside it or
\* no number at all (ValueError, taken by the handler), or input() raises.
ShellPick(from, next) ==
    /\ pos = from
    /\ \/ \E k \in 1..Len(op.listing) :
             /\ idx' = k
             /\ pos' = next
             /\ UNCHANGED err
       \/ /\ pos' = "return"
          /\ UNCHANGED <<idx, err>>
       \/ \E e \in Interrupts :
             /\ Throw(e)
             /\ UNCHANGED idx
    /\ UNCHANGED <<shell, typed, cause, impl, api_set, flowVars, storeVars>>

\* session_name = sessions[idx]["name"]
Picked == op.listing[idx].doc.name

ShellLoadList == ShellList("load", "load_pick")

ShellLoadPick == ShellPick("load_pick", "load_call")

\* session_string = load_session(session_name); the test question follows
\* when a token came back and the API fields are set.
ShellLoadCall ==
    /\ pos = "load_call"
    /\ nops < MaxShellOps
    /\ \E order \in ScanOrders(Picked) : LoadSession(Picked, order)
    /\ IF op'.exc # "none" THEN Throw(op'.exc)
       ELSE /\ pos' = IF op'.ret \in Tokens /\ shell # "manager" /\ api_set
                      THEN "load_ask_test" ELSE "return"
            /\ UNCHANGED err
    /\ UNCHANGED <<shell, idx, typed, cause>>

\* test_choice = input(...): yes, anything else, or input() raises.
ShellAskTest ==
    /\ pos = "load_ask_test"
    /\ \/ /\ pos' \in {"test_flow", "return"}
          /\ UNCHANGED err
       \/ \E e \in Interrupts : Throw(e)
    /\ UNCHANGED <<shell, idx, typed, cause, impl, api_set, flowVars, storeVars>>

\* await test_session_connection(session_string, api_id, api_hash)
ShellTestFlow ==
    /\ pos = "test_flow"
    /\ \/ TestSession
       \/ TestNewClient
       \/ TestConnect
       \/ IsUserAuthorized
       \/ TestGetMe
       \/ Finally

ShellTestReturned ==
    /\ pos = "test_flow"
    /\ pc = "done"
    /\ IF raised # "none" THEN Throw(raised)
       ELSE /\ pos' = "return"
            /\ UNCHANGED err
    /\ FlowOver
    /\ UNCHANGED <<shell, idx, typed, cause, impl, api_set, storeVars>>

ShellDeleteList == ShellList("delete", "delete_pick")

ShellDeletePick == ShellPick("delete_pick", "delete_confirm")

ConfirmTexts == {"DELETE", "y", "n"}

\* str.lower() on the texts the operator may type
Lower(text) == IF text = "DELETE" THEN "delete" ELSE text

\* if confirm == "DELETE" (main.py, standalone_session_tool.py);
\* if confirm in ['y', 'yes', '예'] after .lower() (session_manager.py)
Confirms(sh, text) ==
    IF sh = "manager" THEN Lower(text) \in {"y", "yes"} ELSE text = "DELETE"

\* confirm = input(...).strip() and the test on it
ShellDeleteConfirm ==
    /\ pos = "delete_confirm"
    /\ \/ \E text \in ConfirmTexts :
             /\ typed' = text
             /\ pos' = IF Confirms(shell, text) THEN "delete_call" ELSE "return"
             /\ UNCHANGED err
       \/ \E e \in Interrupts :
             /\ Throw(e)
             /\ UNCHANGED typed
    /\ UNCHANGED <<shell, idx, cause, impl, api_set, flowVars, storeVars>>

\* delete_session(session_name)
ShellDeleteCall ==
    /\ pos = "delete_call"
    /\ nops < MaxShellOps
    /\ \E order \in ScanOrders(Picked) : DeleteSession(Picked, order)
    /\ IF op'.exc # "none" THEN Throw(op'.exc)
       ELSE /\ pos' = "return"
            /\ UNCHANGED err
    /\ UNCHANGED <<shell, idx, typed, cause>>

\* The except clauses of run with `except Exception` ending the loop too.
ShellExceptBreaks ==
    /\ pos = "raised"
    /\ pos' = "exited"
    /\ cause' = err
    /\ UNCHANGED <<shell, idx, typed, err, impl, api_set, flowVars, storeVars>>

\* The except clauses of run: an interrupt or end of input breaks the loop,
\* any other Exception is printed and waits for a key, and what is no
\* Exception leaves run.  main of session_manager.py has no try statement:
\* whatever is raised ends it.
ShellExcept ==
    /\ pos = "raised"
    /\ IF shell # "manager" /\ err \notin Interrupts /\ IsException(err)
       THEN /\ pos' = "ack"
            /\ UNCHANGED cause
       ELSE /\ pos' = "exited"
            /\ cause' = err
    /\ UNCHANGED <<shell, idx, typed, err, impl, api_set, flowVars, storeVars>>

\* input("...") inside the except clause: a key, or input() raises and the
\* exception leaves run.
ShellAck ==
    /\ pos = "ack"
    /\ \/ /\ pos' = "return"
          /\ UNCHANGED cause
       \/ \E e \in Interrupts :
             /\ pos' = "exited"
             /\ cause' = e
    /\ UNCHANGED <<shell, idx, typed, err, impl, api_set, flowVars, storeVars>>

\* The handler is over and its locals are gone; the loop starts again.
ShellReturn ==
    /\ pos = "return"
    /\ pos' = "menu"
    /\ idx' = 0
    /\ typed' = ""
    /\ err' = "none"
    /\ result' = "unset"
    /\ UNCHANGED <<fn, pc, client, state, calls, pending, retval, outcome, raised>>
    /\ UNCHANGED <<shell, cause, impl, api_set, storeVars>>

ShellNext ==
    \/ ShellChoose
    \/ ShellSetup
    \/ ShellGetPhone
    \/ ShellCreateFlow
    \/ ShellCreateReturned
    \/ ShellAskSave
    \/ ShellView
    \/ ShellLoadList
    \/ ShellLoadPick
    \/ ShellLoadCall
    \/ ShellAskTest
    \/ ShellTestFlow
    \/ ShellTestReturned
    \/ ShellDeleteList
    \/ ShellDeletePick
    \/ ShellDeleteConfirm
    \/ ShellDeleteCall
    \/ ShellExcept
    \/ ShellAck
    \/ ShellReturn

\* The sessions directory the program is started on.
\* a.json is absent or holds an object; x.json, if there, is a file the
\* operator put next to a saved record.
ShellDirs ==
    {d \in DirChoices :
        /\ DOMAIN d \subseteq {FileA, FileX}
        /\ FileA \in DOMAIN d => d[FileA].kind \in {"record", "partial"}
        /\ FileX \in DOMAIN d =>
              /\ FileA \in DOMAIN d
              /\ d[FileA].kind = "record"
              /\ d[FileX] \in {Record(NameA, "tokA", NoneVal, NoneVal, 1, Never),
                                Foreign("nondict"), Foreign("corrupt")}}

ShellInit ==
    /\ shell \in Shells
    /\ impl = ImplOf(shell)
    /\ api_set \in (IF shell = "manager" THEN {FALSE} ELSE BOOLEAN)
    /\ FlowInit
    /\ files \in ShellDirs
    /\ now = 1
    /\ op = NoOp
    /\ prev = Earlier(NoOp)
    /\ nops = 0
    /\ pos = "menu"
    /\ idx = 0
    /\ typed = ""
    /\ err = "none"
    /\ cause = "none"

SpecShell == ShellInit /\ [][ShellNext]_vars

(***************************************************************************)
(* Properties of the acquisition flow (checked under SpecFlow).            *)
(***************************************************************************)
Disconnects == Cardinality(Invoked("disconnect"))

\* No remote call and no prompt was cut short by an operator interrupt.
NoInterrupt ==
    /\ \A i \in 1..Len(calls) : calls[i].reply \notin BaseExceptions
    /\ pending \notin BaseExceptions
    /\ raised \notin BaseExceptions

\* C1: once create_session has built its client, disconnect is invoked
\* exactly once before the operation is left, whatever the exit path
\* (token returned, code rejected, API credentials rejected, any remote call
\* or prompt failing, an interrupt), it is the last remote operation, and the
\* attempt ends in phase Disconnected; without a client it is never invoked.
C1_ReleaseOnEveryExit ==
    /\ Disconnects <= 1
    /\ ~client => Disconnects = 0
    /\ pc = "done" =>
          /\ state = "Disconnected"
          /\ client => /\ Disconnects = 1
                       /\ calls[Len(calls)].op = "disconnect"

\* A failure exit (connect itself raised) that went through the release.
C1_Witness ==
    /\ fn = "create_session"
    /\ pc = "done"
    /\ client
    /\ Replied("connect", "Exception")
    /\ Disconnects = 1
    /\ state = "Disconnected"

\* C2: when the remote rejects the submitted login code
\* (sign_in raises PhoneCodeInvalidError), create_session returns None with
\* the InvalidCode report and disconnect was invoked exactly once.
C2_RejectedCodeReturnsInvalidCode ==
    (pc = "done" /\ Replied("sign_in", "PhoneCodeInvalidError") /\ NoInterrupt) =>
        /\ raised = "none"
        /\ result = NoneVal
        /\ outcome = "InvalidCode"
        /\ Disconnects = 1

\* C3: when sign_in answers that a second factor is required, an accepted
\* password leads to TokenExported and a token is returned; without an
\* accepted password the flow is never Authenticated and returns no token.
C3_SecondFactor ==
    /\ (/\ pc = "done"
        /\ Replied("sign_in", "SessionPasswordNeededError")
        /\ Replied("sign_in_password", "ok")
        /\ NoInterrupt) =>
           /\ Replied("session_save", "ok")
           /\ result \in Tokens
    /\ (/\ Replied("sign_in", "SessionPasswordNeededError")
        /\ ~Replied("sign_in_password", "ok")) =>
           /\ state # "Authenticated"
           /\ ~Replied("session_save", "ok")
           /\ result \notin Tokens

\* C9: no exception leaves create_session, whichever remote operation fails
\* (disconnect included): the operation ends by returning.
C9_NoExceptionEscapes ==
    pc = "done" => raised \notin Exceptions

\* C10: a failing identity fetch (get_me raises) after a successful sign-in
\* is not fatal: the token is still exported and returned.
C10_IdentityFetchNonFatal ==
    (/\ pc = "done"
     /\ \E e \in Exceptions : Replied("get_me", e)
     /\ Replied("disconnect", "ok")) =>
        /\ Replied("session_save", "ok")
        /\ result \in Tokens

(***************************************************************************)
(* Properties of the store (checked under SpecStore and SpecFind).         *)
(***************************************************************************)
\* C4: a successful save_session(token, name, ...) immediately followed by
\* load_session(name) returns exactly token, and the saved record's
\* last_used is then set and not earlier than before the load.
C4_SaveThenLoad ==
    (/\ op.kind = "load"
     /\ prev.kind = "save"
     /\ prev.ret = "True"
     /\ prev.name = op.name) =>
        /\ op.ret = prev.token
        /\ Exists(prev.file)
        /\ files[prev.file].last_used # Never
        /\ files[prev.file].last_used >= op.before

\* C5: a successful delete_session(name) immediately followed by
\* load_session(name) finds nothing and returns None.
C5_DeleteThenLoad ==
    (/\ op.kind = "load"
     /\ prev.kind = "delete"
     /\ prev.ret = "True"
     /\ prev.name = op.name) =>
        /\ op.ret = NoneVal
        /\ op.file = <<>>

\* The files whose name field equals the identifier (rule (c)).
NameMatches(name) ==
    {f \in DOMAIN files : files[f].kind = "record" /\ files[f].name = name}

RuleA(name) == EndsWith(name, Suffix) /\ Exists(name)

RuleB(name) == Exists(name \o Suffix)

DistinctCreatedAt ==
    \A f, g \in DOMAIN files :
        files[f].created_at = files[g].created_at => f = g

OnlyDisallowed(name) ==
    \A i \in 1..Len(name) : name[i] \notin Alnum \cup {"-", "_"}

\* C8: save_session with a name of only disallowed characters succeeds and
\* writes session_<timestamp>.json; for every name the file written exists
\* and its base name (the part before .json) is not empty.
C8_FallbackFileName ==
    op.kind = "save" =>
        /\ op.ret = "True"
        /\ Exists(op.file)
        /\ EndsWith(op.file, Suffix)
        /\ Len(op.file) > Len(Suffix)
        /\ files[op.file].name = op.name
        /\ OnlyDisallowed(op.name) =>
              op.file = FallbackName(files[op.file].created_at) \o Suffix

\* The name "! " was saved and landed in the timestamp-named file.
C8_Witness ==
    /\ op.kind = "save"
    /\ op.name = NameBang
    /\ OnlyDisallowed(op.name)
    /\ op.file = FallbackName(now) \o Suffix
    /\ Exists(op.file)

\* C11: when the remote reports the token as unauthorized
\* (is_user_authorized answers False) and nobody interrupts, test_session
\* returns False as a normal outcome: no exception leaves it, get_me is not
\* attempted, and disconnect was invoked exactly once.
C11_UnauthorizedReturnsFalse ==
    (/\ fn = "test_session"
     /\ pc = "done"
     /\ Replied("is_user_authorized", "False")
     /\ NoInterrupt)
    => /\ raised = "none"
       /\ result = "False"
       /\ Invoked("get_me") = {}
       /\ Disconnects = 1

\* The step is a save_session that wrote file f.
SavedTo(f) == op'.kind = "save" /\ nops' = nops + 1 /\ op'.file = f

\* Everything of a document but its last_used field.
Fixed(doc) == [doc EXCEPT !.last_used = Never]

\* C12 as stated: across save, load, list and delete, the document a file
\* holds never changes in name, session_string, phone, notes or created_at;
\* only last_used changes.
C12_FieldsNeverChange ==
    [][\A f \in DOMAIN files \cap DOMAIN files' :
          Fixed(files'[f]) = Fixed(files[f])]_vars

\* C12 amended: load, list and delete never change the name, session_string,
\* phone, notes or created_at of a stored record, only last_used; the one
\* operation after which a file holds different values is a save_session
\* that derives that file's name and replaces the record wholesale.
C12_FieldsChangeOnlyByReplacement ==
    [][\A f \in DOMAIN files \cap DOMAIN files' :
          ~SavedTo(f) => Fixed(files'[f]) = Fixed(files[f])]_vars

\* A record was loaded: its file now carries the stamp and still the token
\* that load returned.
C12_Witness ==
    /\ op.kind = "load"
    /\ op.ret \in Tokens
    /\ op.file \in DOMAIN files
    /\ files[op.file].last_used # Never
    /\ files[op.file].session_string = op.ret

\* The part of a filename before the .json suffix.
Base(f) == SubSeq(f, 1, Len(f) - Len(Suffix))

\* Every file holds one record, no record is held twice, and the file is
\* named after the cleaned name of its record, or session_<timestamp> when
\* the cleaned name is empty.
OneFilePerRecord ==
    /\ \A f \in DOMAIN files :
          /\ files[f].kind = "record"
          /\ EndsWith(f, Suffix)
          /\ IF SafeName(files[f].name) = <<>>
             THEN \E t \in 0..MaxTime : Base(f) = FallbackName(t)
             ELSE Base(f) = SafeName(files[f].name)
    /\ \A f, g \in DOMAIN files : f # g => files[f] # files[g]

\* The last two operations were saves under different names.
TwoNamesSaved ==
    /\ prev.kind = "save"
    /\ op.kind = "save"
    /\ prev.name # op.name

\* C13 as stated: in every store state each record is in exactly one file
\* named after its cleaned name (or the timestamp fallback), and two records
\* saved under different names are never held by the same file.
C13_DifferentNamesDifferentFiles ==
    /\ OneFilePerRecord
    /\ TwoNamesSaved => op.file # prev.file

\* C13 amended: in every store state each record is in exactly one file
\* named after its cleaned name (or the timestamp fallback); two records
\* saved under different names are in different files when their cleaned
\* names differ and are not empty, and when both names derive the same
\* filename the one file holds the record saved last.
C13_OneFilePerDerivedName ==
    /\ OneFilePerRecord
    /\ TwoNamesSaved =>
          /\ (/\ SafeName(prev.name) # <<>>
              /\ SafeName(op.name) # <<>>
              /\ SafeName(prev.name) # SafeName(op.name))
             => /\ op.file # prev.file
                /\ files[prev.file].name = prev.name
                /\ files[op.file].name = op.name
          /\ op.file = prev.file => files[op.file].name = op.name

\* "a" and then "a.json" were saved: two names, two cleaned names, two files.
C13_Witness ==
    /\ TwoNamesSaved
    /\ prev.name = NameA
    /\ op.name = NameAJson
    /\ files[prev.file].name = NameA
    /\ files[op.file].name = NameAJson
    /\ Cardinality(DOMAIN files) >= 2

\* C14: a save_session whose derived filename already exists succeeds
\* without any report and replaces the whole content of that file by the new
\* record (new name, token, phone, notes, created_at of the save, last_used
\* null); the set of files stays the same and no other file is modified.
C14_OverwriteReplaces ==
    [][(op'.kind = "save" /\ nops' = nops + 1 /\ op'.file \in DOMAIN files)
       => /\ op'.ret = "True"
          /\ op'.exc = "none"
          /\ DOMAIN files' = DOMAIN files
          /\ \A g \in DOMAIN files \ {op'.file} : files'[g] = files[g]
          /\ \E i \in SaveInputs :
                /\ i[1] = op'.token
                /\ i[2] = op'.name
                /\ files'[op'.file] = Record(i[2], i[1], i[3], i[4], now, Never)]_vars

\* A record that had been loaded (so stamped) was overwritten by a save with
\* another token: the file now has the new token and a null last_used.
C14_Witness ==
    /\ prev.kind = "load"
    /\ prev.ret \in Tokens
    /\ op.kind = "save"
    /\ op.file = prev.file
    /\ op.token # prev.ret
    /\ files[op.file].session_string = op.token
    /\ files[op.file].last_used = Never

\* C17: an operator interrupt at any suspension point of create_session or
\* test_session after the client was built (a prompt or a remote call) is
\* followed by the release: the flow is not left before disconnect was
\* invoked, exactly once and as the last remote operation.
C17_InterruptStillReleases ==
    (client /\ pending \in BaseExceptions)
    => \/ pc = "finally" /\ Disconnects = 0
       \/ /\ pc = "done"
          /\ Disconnects = 1
          /\ calls[Len(calls)].op = "disconnect"
          /\ raised # "none"

\* create_session was interrupted at the password prompt and left after the
\* release.
C17_Witness ==
    /\ fn = "create_session"
    /\ pc = "done"
    /\ Replied("sign_in", "SessionPasswordNeededError")
    /\ Invoked("sign_in_password") = {}
    /\ pending = "KeyboardInterrupt"
    /\ raised = "KeyboardInterrupt"
    /\ Disconnects = 1

\* C18: within one run of create_session the password step happens at most
\* once and only directly after sign_in(phone, code) answered
\* SessionPasswordNeededError; otherwise sign_in(password) is never invoked,
\* and after a rejected password nothing but disconnect is invoked.
C18_SecondFactorAtMostOnce ==
    /\ Cardinality(Invoked("sign_in_password")) <= 1
    /\ pc \in {"input_password", "sign_in_password"} =>
          calls[Len(calls)] = Call("sign_in", "SessionPasswordNeededError")
    /\ \A i \in Invoked("sign_in_password") :
          /\ i > 1
          /\ calls[i - 1] = Call("sign_in", "SessionPasswordNeededError")
          /\ calls[i].reply # "ok" =>
                \A j \in (i + 1)..Len(calls) : calls[j].op = "disconnect"

\* The password was asked for once, rejected, and create_session returned
\* None.
C18_Witness ==
    /\ pc = "done"
    /\ Replied("sign_in", "SessionPasswordNeededError")
    /\ Replied("sign_in_password", "Exception")
    /\ Cardinality(Invoked("sign_in_password")) = 1
    /\ result = NoneVal

\* Remote call i of the run failed (the password request of sign_in is a
\* branch of the flow, not a failure).
Failed(i) ==
    /\ calls[i].reply \in Raisable
    /\ calls[i] # Call("sign_in", "SessionPasswordNeededError")

\* C19: every error in create_session is terminal: after the failing step
\* no remote operation other than disconnect is invoked, send_code_request
\* and sign_in(phone, code) are each invoked at most once per run, and no
\* token is returned.
C19_ErrorsAreTerminal ==
    fn = "create_session" =>
        /\ \A i \in 1..Len(calls) :
              Failed(i) => \A j \in (i + 1)..Len(calls) : calls[j].op = "disconnect"
        /\ Cardinality(Invoked("send_code_request")) <= 1
        /\ Cardinality(Invoked("sign_in")) <= 1
        /\ outcome # "none" => pc \in {"finally", "done"}
        /\ (outcome # "none" \/ \E i \in 1..Len(calls) : Failed(i)) =>
              result \notin Tokens

\* The code was rejected: the InvalidCode report, then only disconnect, and
\* None is returned.
C19_Witness ==
    /\ fn = "create_session"
    /\ pc = "done"
    /\ outcome = "InvalidCode"
    /\ calls[Len(calls) - 1] = Call("sign_in", "PhoneCodeInvalidError")
    /\ calls[Len(calls)] = Call("disconnect", "ok")
    /\ result = NoneVal

\* A file that can be read and parsed into a JSON object.
Listable(doc) == doc.kind \in {"record", "partial"}

\* C20: list_sessions returns exactly one entry for every file of the
\* directory that can be read and parsed, carrying the document, the
\* filename and the file size, and nothing else; a file that cannot be read
\* or is malformed is skipped without keeping the other files from being
\* listed.
C20_ListSkipsBadFiles ==
    op.kind = "list" =>
        /\ op.exc = "none"
        /\ \A f \in DOMAIN files :
              Listable(files[f]) =>
                  Cardinality({i \in 1..Len(op.listing) :
                                  op.listing[i].filename = f}) = 1
        /\ \A i \in 1..Len(op.listing) :
              LET e == op.listing[i]
              IN  /\ e.filename \in DOMAIN files
                  /\ Listable(files[e.filename])
                  /\ e.doc = files[e.filename]
                  /\ e.file_size = FileSize(files[e.filename])

\* C15: in run of main.py and of standalone_session_tool.py, an exception
\* out of a menu action that is neither an interrupt nor end of input is
\* caught and reported, the shell waits for a key, and after the key it is
\* back at the menu; the loop ends only on the exit choice, on an interrupt
\* or on end of input (exit(0), which get_api_credentials calls on these,
\* included).
C15_ShellSurvivesErrors ==
    [][(shell # "manager") =>
          /\ (pos = "raised" /\ IsException(err) /\ err \notin Interrupts)
                => pos' = "ack"
          /\ pos = "ack" =>
                \/ pos' = "return"
                \/ pos' = "exited" /\ cause' \in Interrupts
          /\ pos = "return" => pos' = "menu"
          /\ (pos # "exited" /\ pos' = "exited") =>
                cause' \in {"choice", "SystemExit"} \cup Interrupts]_vars

\* create_session raised out of its finally block into run of main.py; the
\* error was reported and acknowledged and the handler is over.
C15_Witness ==
    /\ shell = "main"
    /\ pos = "return"
    /\ err = "Exception"
    /\ cause = "none"

\* C16: in every interactive shell the delete action calls delete_session
\* only after the operator typed the word DELETE at the confirmation; after
\* any other text no call follows and the store is unchanged.
C16_DeleteOnlyAfterWord ==
    [][/\ (op'.kind = "delete" /\ nops' = nops + 1) => typed = "DELETE"
       /\ (pos = "delete_confirm" /\ typed' # "DELETE") =>
             /\ pos' # "delete_call"
             /\ files' = files]_vars

\* The step is a delete_session that removed file f.
DeletedFile(f) ==
    op'.kind = "delete" /\ nops' = nops + 1 /\ op'.file = f /\ op'.ret = "True"

\* C21 as stated: a saved record stays in the store with its token through
\* every later save, load and list; only a delete makes it cease to exist.
C21_OnlyDeleteDestroys ==
    [][\A f \in DOMAIN files :
          ~DeletedFile(f) =>
              /\ f \in DOMAIN files'
              /\ files'[f].session_string = files[f].session_string]_vars

\* C21 amended: a saved record stays in its file, with its token returned
\* by a load of that filename, through every later load and list and every
\* save that derives another filename; it ceases to exist only through a
\* delete that resolves to its file or a save that derives its filename and
\* replaces it.
C21_DestroyedByDeleteOrReplacement ==
    [][\A f \in DOMAIN files :
          /\ (~DeletedFile(f) /\ ~SavedTo(f)) =>
                /\ f \in DOMAIN files'
                /\ Fixed(files'[f]) = Fixed(files[f])
          /\ (op'.kind = "load" /\ nops' = nops + 1 /\ op'.name = f) =>
                /\ op'.file = f
                /\ op'.ret = files[f].session_string]_vars

\* A record was saved, a second file exists beside it, and a load of its
\* filename returned its token.
C21_Witness ==
    /\ prev.kind = "save"
    /\ op.kind = "load"
    /\ op.name = prev.file
    /\ op.ret = prev.token
    /\ Cardinality(DOMAIN files) >= 2

\* The remote operation that comes after a successful one in create_session.
NextOp(name) ==
    CASE name = "connect" -> "send_code_request"
      [] name = "send_code_request" -> "sign_in"
      [] name = "sign_in" -> "get_me"
      [] name = "sign_in_password" -> "get_me"
      [] name = "get_me" -> "session_save"
      [] OTHER -> "disconnect"

\* Call b may come directly after call a.
Follows(a, b) ==
    \/ b.op = "disconnect"
    \/ a.reply = "ok" /\ b.op = NextOp(a.op)
    \/ a = Call("sign_in", "SessionPasswordNeededError") /\ b.op = "sign_in_password"

\* C22: in one run of create_session the remote operations occur only in
\* the order connect, send_code_request, sign_in(phone, code), optionally
\* sign_in(password), get_me, session.save, disconnect, each one only after
\* the one before it succeeded; the token is exported only in phase
\* Authenticated, and a token is returned only if every step before it
\* succeeded, disconnect included.
C22_RemoteOrder ==
    fn = "create_session" =>
        /\ calls # <<>> => calls[1].op = "connect"
        /\ \A i \in 1..(Len(calls) - 1) :
              /\ calls[i].op # "disconnect"
              /\ Follows(calls[i], calls[i + 1])
        /\ pc = "session_save" => state = "Authenticated"
        /\ Invoked("session_save") # {} =>
              Replied("sign_in", "ok") \/ Replied("sign_in_password", "ok")
        /\ result \in Tokens =>
              /\ pc = "done"
              /\ Replied("session_save", "ok")
              /\ calls[Len(calls)] = Call("disconnect", "ok")
              /\ \A i \in 1..Len(calls) :
                    \/ calls[i].reply = "ok"
                    \/ calls[i] = Call("sign_in", "SessionPasswordNeededError")

\* A run through the password branch that returned a token.
C22_Witness ==
    /\ fn = "create_session"
    /\ pc = "done"
    /\ result \in Tokens
    /\ Replied("sign_in_password", "ok")
    /\ Len(calls) = 7

\* C23: a load_session that returns a token changes only the last_used
\* field of the one file the identifier resolved to, which becomes the time
\* of the load: that file's name, token, phone, notes and created_at, the
\* content of every other file, and the set of files are unchanged, and the
\* token returned is the one the file held.
C23_LoadChangesOnlyLastUsed ==
    [][(op'.kind = "load" /\ nops' = nops + 1 /\ op'.ret \in Tokens)
       => /\ op'.file \in DOMAIN files
          /\ DOMAIN files' = DOMAIN files
          /\ \A g \in DOMAIN files \ {op'.file} : files'[g] = files[g]
          /\ Fixed(files'[op'.file]) = Fixed(files[op'.file])
          /\ files'[op'.file].last_used = now
          /\ op'.ret = files[op'.file].session_string]_vars

\* The record named "a" was found by the scan in x.json, beside another
\* file, and loaded.
C23_Witness ==
    /\ op.kind = "load"
    /\ op.ret \in Tokens
    /\ op.name = NameA
    /\ op.file = FileX
    /\ files[FileX].last_used = now
    /\ Cardinality(DOMAIN files) >= 2

\* A load of file f that returned its token.
LoadedFrom(f) ==
    op'.kind = "load" /\ nops' = nops + 1 /\ op'.file = f /\ op'.ret \in Tokens

\* last_used is null after a save, non-null after a load that returned the
\* token, and is left alone by every other step.
NullUntilLoaded ==
    /\ \A f \in DOMAIN files' : SavedTo(f) => files'[f].last_used = Never
    /\ \A f \in DOMAIN files : LoadedFrom(f) => files'[f].last_used # Never
    /\ \A f \in DOMAIN files \cap DOMAIN files' :
          (~SavedTo(f) /\ ~LoadedFrom(f)) => files'[f].last_used = files[f].last_used

\* C24 as stated: last_used of a record is null exactly when the record has
\* not been loaded with success since save last wrote it, and once non-null
\* it never decreases under later loads.
C24_LastUsedNeverDecreases ==
    [][/\ NullUntilLoaded
       /\ \A f \in DOMAIN files :
             (LoadedFrom(f) /\ files[f].last_used # Never)
                => files'[f].last_used >= files[f].last_used]_vars

\* The remote operations of a verification, in the order of the code.
Probes == {"connect", "is_user_authorized", "get_me", "disconnect"}

\* Call b of a verification may come directly after call a.
ProbeFollows(a, b) ==
    \/ b.op = "disconnect"
    \/ a = Call("connect", "ok") /\ b.op = "is_user_authorized"
    \/ a = Call("is_user_authorized", "True") /\ b.op = "get_me"

\* C25: test_session / test_session_connection performs no handshake: it
\* invokes only connect, is_user_authorized, get_me (only after
\* is_user_authorized answered True) and disconnect, never
\* send_code_request or sign_in; once the client is built, disconnect is
\* invoked exactly once on every exit path, as the last remote operation, and
\* without a client it is never invoked.
C25_VerifyOnlyProbes ==
    fn = "test_session" =>
        /\ \A i \in 1..Len(calls) : calls[i].op \in Probes
        /\ calls # <<>> => calls[1].op = "connect"
        /\ \A i \in 1..(Len(calls) - 1) :
              /\ calls[i].op # "disconnect"
              /\ ProbeFollows(calls[i], calls[i + 1])
        /\ state \in {"Disconnected", "Connected"}
        /\ ~client => calls = <<>>
        /\ pc # "done" => Disconnects = 0
        /\ (pc = "done" /\ client) =>
              /\ Disconnects = 1
              /\ calls[Len(calls)].op = "disconnect"

\* A verification of a session that is not authorized, left after the
\* release.
C25_Witness ==
    /\ fn = "test_session"
    /\ pc = "done"
    /\ Replied("is_user_authorized", "False")
    /\ Len(calls) = 3
    /\ calls[3].op = "disconnect"

\* What every outcome of SessionManager satisfies, its except clauses being
\* `except Exception` throughout: no store operation raises, and
\* list_sessions leaves out only the files it cannot parse into an object.
AsSessionManager ==
    /\ op.kind \in {"save", "load", "delete", "list"} => op.exc = "none"
    /\ op.kind = "list" =>
          {op.listing[i].filename : i \in 1..Len(op.listing)}
             = {f \in DOMAIN files : Listable(files[f])}

\* C26: SessionManager and StandaloneSessionManager are equivalent as
\* stores: from the same directory and with the same arguments, an operation
\* of either returns the same result, raises only if the other raises, and
\* leaves the same files; so the outcomes of the standalone store satisfy
\* what the outcomes of SessionManager satisfy.
C26_StoresEquivalent ==
    impl = "standalone" => AsSessionManager

\* A delete_session call has returned.
Deleted == op'.kind = "delete" /\ nops' = nops + 1

\* C27: a delete_session that returns True removes exactly the one file its
\* identifier resolved to and leaves every other file as it was; a
\* delete_session that does not (nothing found) leaves the whole directory
\* as it was.
C27_DeleteRemovesOneFile ==
    [][Deleted =>
         IF op'.ret = "True"
         THEN /\ op'.file \in DOMAIN files
              /\ \E order \in GlobOrders :
                    FindSessionFile(op'.name, order) = Found(op'.file)
              /\ DOMAIN files' = DOMAIN files \ {op'.file}
              /\ \A g \in DOMAIN files' : files'[g] = files[g]
         ELSE files' = files]_vars

\* A record found by the scan of the name fields was deleted from a
\* directory that holds other files, one of them with the same name field.
C27_Witness ==
    /\ op.kind = "delete"
    /\ op.ret = "True"
    /\ op.name = NameA
    /\ op.file = FileX
    /\ FileX \notin DOMAIN files
    /\ FileAJson \in DOMAIN files
    /\ files[FileAJson].name = NameA

\* C28: a load_session that returns no token (identifier not found, file
\* unreadable, or document without a token field) leaves the directory
\* exactly as it was: no file is rewritten and no last_used is changed.
C28_FailedLoadChangesNothing ==
    [][(op'.kind = "load" /\ nops' = nops + 1 /\ op'.ret \notin Tokens)
          => files' = files]_vars

\* The shell calls load_session or delete_session for the entry picked.
ShellActsOnPick ==
    /\ pos \in {"load_call", "delete_call"}
    /\ nops' = nops + 1
    /\ op'.kind \in {"load", "delete"}

\* C29: in the load and delete actions of the shell the file loaded or
\* deleted is the file of the entry the operator picked by its number, also
\* when the name of that entry is the filename of another file or is the
\* name of several files.
C29_ActsOnPickedFile ==
    [][ShellActsOnPick => op'.file = op.listing[idx].filename]_vars

\* The positions of the create-session action of the shell.
Creating == {"create_phone", "create_flow", "create_save"}

Listed == op'.kind = "list" /\ nops' = nops + 1

\* C31: list_sessions is read-only: whatever the directory holds, the call
\* changes the content of no file (no last_used in particular) and neither
\* adds nor removes a file.
C31_ListIsReadOnly ==
    [][Listed => files' = files]_vars

\* A directory of two records, one of them loaded before, was listed.
C31_Witness ==
    /\ op.kind = "list"
    /\ prev.kind = "load"
    /\ prev.ret \in Tokens
    /\ Len(op.listing) = 2
    /\ files[prev.file].last_used # Never
    /\ \E i \in 1..2 : /\ op.listing[i].filename = prev.file
                        /\ op.listing[i].doc.last_used # Never
====
